---- MODULE Spec2Model ----
(***************************************************************************)
(* Barnes-Hut quadtree and simulation step of gravsim, in its two          *)
(* variants:                                                               *)
(*   "lib" : gravsim-simulation/src/{lib.rs,tree.rs}                       *)
(*   "app" : src/{simulation.rs,tree.rs}                                   *)
(*                                                                         *)
(* f32 values are modelled as binary floating-point numbers with a         *)
(* MantBits-bit significand and an unbounded exponent: every arithmetic    *)
(* operation computes the exact result and rounds it to nearest, ties to   *)
(* even, as IEEE-754 does.  NaN and the infinities are values.             *)
(***************************************************************************)
EXTENDS Integers, Sequences, FiniteSets, TLC

(***************************************************************************)
(* Bounds of the model.                                                    *)
(***************************************************************************)
\* significand width of the modelled floats (f32 has 24)
MantBits == 13
\* number of nested Node::insert frames the call stack holds
StackLimit == 8
\* number of Node::insert calls the tree harness makes on one root
MaxPoints == 3
\* number of Simulation::update calls in one behaviour
MaxSteps == 2

(***************************************************************************)
(* Floating point.  A finite value m * 2^e is the pair <<m, e>> with m odd,*)
(* or <<0, 0>> for zero; the remaining pairs with m = 0 are the specials.  *)
(***************************************************************************)
Zero == <<0, 0>>
NaN == <<0, 1>>
PosInf == <<0, 2>>
NegInf == <<0, 3>>

IsNaN(x) == x = NaN
IsInf(x) == x = PosInf \/ x = NegInf
IsFinite(x) == x[1] # 0 \/ x = Zero

Abs(n) == IF n < 0 THEN -n ELSE n
Sgn(n) == IF n < 0 THEN -1 ELSE IF n > 0 THEN 1 ELSE 0

\* sign of a float: -1, 0, 1 (NaN has none; callers exclude it)
FSign(x) == IF x = PosInf THEN 1 ELSE IF x = NegInf THEN -1 ELSE Sgn(x[1])

RECURSIVE BitLen(_)
BitLen(n) == IF n = 0 THEN 0 ELSE 1 + BitLen(n \div 2)

RECURSIVE Canon(_, _)
Canon(m, e) ==
    IF m = 0 THEN Zero
    ELSE IF m % 2 = 0 THEN Canon(m \div 2, e + 1)
    ELSE <<m, e>>

\* the float nearest to s * a * 2^e (s = +-1, a >= 0), ties to even
Round(s, a, e) ==
    LET k == BitLen(a) - MantBits IN
    IF k <= 0 THEN Canon(s * a, e)
    ELSE LET q == a \div (2 ^ k)
             r == a % (2 ^ k)
             h == 2 ^ (k - 1)
             up == r > h \/ (r = h /\ q % 2 = 1)
         IN  Canon(s * (IF up THEN q + 1 ELSE q), e + k)

\* an integer literal as a float
FInt(n) == Round(IF n < 0 THEN -1 ELSE 1, Abs(n), 0)

FNeg(x) ==
    IF x = NaN THEN NaN
    ELSE IF x = PosInf THEN NegInf
    ELSE IF x = NegInf THEN PosInf
    ELSE <<-x[1], x[2]>>

FAbs(x) == IF IsFinite(x) /\ x[1] < 0 THEN FNeg(x) ELSE IF x = NegInf THEN PosInf ELSE x

\* exact sum of two finite nonzero floats, then one rounding; an addend more
\* than MantBits + 2 binary places below the other only acts as a sticky bit
AddFinite(x, y) ==
    LET hi == IF x[2] >= y[2] THEN x ELSE y
        lo == IF x[2] >= y[2] THEN y ELSE x
        gap == hi[2] - lo[2]
        g == MantBits + 2
        m == IF gap > g THEN hi[1] * (2 ^ g) + Sgn(lo[1])
             ELSE hi[1] * (2 ^ gap) + lo[1]
        e == IF gap > g THEN hi[2] - g ELSE lo[2]
    IN  Round(IF m < 0 THEN -1 ELSE 1, Abs(m), e)

FAdd(x, y) ==
    IF x = NaN \/ y = NaN THEN NaN
    ELSE IF IsInf(x) THEN (IF IsInf(y) /\ y # x THEN NaN ELSE x)
    ELSE IF IsInf(y) THEN y
    ELSE IF x = Zero THEN y
    ELSE IF y = Zero THEN x
    ELSE AddFinite(x, y)

FSub(x, y) == FAdd(x, FNeg(y))

FMul(x, y) ==
    IF x = NaN \/ y = NaN THEN NaN
    ELSE IF IsInf(x) \/ IsInf(y)
         THEN (IF x = Zero \/ y = Zero THEN NaN
               ELSE IF FSign(x) * FSign(y) > 0 THEN PosInf ELSE NegInf)
    ELSE Round(IF x[1] * y[1] < 0 THEN -1 ELSE 1, Abs(x[1]) * Abs(y[1]), x[2] + y[2])

\* quotient of two finite nonzero floats: 2 * MantBits + 1 bits of numerator
\* give a quotient of more than MantBits bits; the remainder is a sticky bit
DivFinite(x, y) ==
    LET s == 2 * MantBits + 1 - BitLen(Abs(x[1]))
        n == Abs(x[1]) * (2 ^ s)
        q == n \div Abs(y[1])
        sticky == IF n % Abs(y[1]) = 0 THEN 0 ELSE 1
    IN  Round(IF x[1] * y[1] < 0 THEN -1 ELSE 1, 2 * q + sticky, x[2] - s - y[2] - 1)

FDiv(x, y) ==
    IF x = NaN \/ y = NaN THEN NaN
    ELSE IF IsInf(x) THEN (IF IsInf(y) THEN NaN
                           ELSE IF FSign(x) * (IF y[1] < 0 THEN -1 ELSE 1) > 0
                                THEN PosInf ELSE NegInf)
    ELSE IF IsInf(y) THEN Zero
    ELSE IF y = Zero THEN (IF x = Zero THEN NaN
                           ELSE IF x[1] > 0 THEN PosInf ELSE NegInf)
    ELSE IF x = Zero THEN Zero
    ELSE DivFinite(x, y)

\* a decimal literal n / d as the nearest float
FRat(n, d) == FDiv(FInt(n), FInt(d))

\* largest r in lo .. hi with r * r <= n
RECURSIVE ISqrt(_, _, _)
ISqrt(n, lo, hi) ==
    IF lo >= hi THEN lo
    ELSE LET mid == (lo + hi + 1) \div 2
         IN  IF mid * mid <= n THEN ISqrt(n, mid, hi) ELSE ISqrt(n, lo, mid - 1)

FSqrt(x) ==
    IF x = NaN \/ x = NegInf THEN NaN
    ELSE IF x = PosInf \/ x = Zero THEN x
    ELSE IF x[1] < 0 THEN NaN
    ELSE LET s0 == 2 * MantBits + 1 - BitLen(x[1])
             s == IF (x[2] - s0) % 2 = 0 THEN s0 ELSE s0 + 1
             n == x[1] * (2 ^ s)
             r == ISqrt(n, 0, 2 ^ (MantBits + 2))
             sticky == IF r * r = n THEN 0 ELSE 1
         IN  Round(1, 2 * r + sticky, ((x[2] - s) \div 2) - 1)

\* IEEE comparisons: every comparison with NaN is false
FEq(x, y) == x # NaN /\ y # NaN /\ x = y
FLt(x, y) ==
    /\ x # NaN /\ y # NaN /\ x # y
    /\ IF x = NegInf \/ y = PosInf THEN TRUE
       ELSE IF x = PosInf \/ y = NegInf THEN FALSE
       ELSE FSub(x, y)[1] < 0
FGt(x, y) == FLt(y, x)
FGe(x, y) == FEq(x, y) \/ FLt(y, x)

\* f32::is_normal: neither zero, infinite nor NaN (the model has no subnormals)
IsNormal(x) == x[1] # 0

(***************************************************************************)
(* Vector2<f32>                                                            *)
(***************************************************************************)
Vec(x, y) == <<x, y>>
VAdd(a, b) == <<FAdd(a[1], b[1]), FAdd(a[2], b[2])>>
VSub(a, b) == <<FSub(a[1], b[1]), FSub(a[2], b[2])>>
VMul(a, f) == <<FMul(a[1], f), FMul(a[2], f)>>
VDiv(a, f) == <<FDiv(a[1], f), FDiv(a[2], f)>>
NormSquared(a) == FAdd(FMul(a[1], a[1]), FMul(a[2], a[2]))
VZero == <<Zero, Zero>>

(***************************************************************************)
(* State.                                                                  *)
(***************************************************************************)
VARIABLES
    variant,    \* "lib" (gravsim-simulation) or "app" (src/): which crate runs
    tree,       \* the quadtree: path from the root (quadrant indices) -> Node
    status,     \* "ok", or "stack_overflow" once Node::insert exhausted the stack
    points,     \* the MassData values passed to insert on the root, in call order
    stars,      \* Simulation::stars
    stars0,     \* stars as they were when the running update began
    phase,      \* position inside Simulation::update
    pending,    \* indices whose task of the parallel pass has not run yet
    steps       \* number of update calls begun

vars == <<variant, tree, status, points, stars, stars0, phase, pending, steps>>

(***************************************************************************)
(* Quadrant (tree.rs of both crates; the two copies are identical).        *)
(***************************************************************************)
RECURSIVE BitAnd(_, _)
BitAnd(a, b) ==
    IF a = 0 \/ b = 0 THEN 0
    ELSE (IF a % 2 = 1 /\ b % 2 = 1 THEN 1 ELSE 0) + 2 * BitAnd(a \div 2, b \div 2)

RECURSIVE BitOr(_, _)
BitOr(a, b) ==
    IF a = 0 THEN b
    ELSE IF b = 0 THEN a
    ELSE (IF a % 2 = 1 \/ b % 2 = 1 THEN 1 ELSE 0) + 2 * BitOr(a \div 2, b \div 2)

NorthWest == 0
NorthEast == 1
SouthWest == 2
SouthEast == 3
Quadrants == {NorthWest, NorthEast, SouthWest, SouthEast}
X == 1
Y == 2

\* the literals 0.5 and 1.0
Half == <<1, -1>>
One == <<1, 0>>
BoolF(b) == IF b THEN One ELSE Zero
BoolU8(b) == IF b THEN 1 ELSE 0

\* Quadrant::offset
offset(quadrant) ==
    Vec(BoolF(BitAnd(quadrant, X) > 0), BoolF(BitAnd(quadrant, Y) > 0))

\* a faulty classification that sends the ties to the upper half (>=)
from_offset_bits_ge(off, scale) ==
    LET bits_x == BoolU8(FGe(off[1], FMul(Half, scale))) * X
        bits_y == BoolU8(FGe(off[2], FMul(Half, scale))) * Y
    IN  BitOr(bits_x, bits_y)

\* the u8 that Quadrant::from_offset hands to try_into
from_offset_bits(off, scale) ==
    LET bits_x == BoolU8(FGt(off[1], FMul(Half, scale))) * X
        bits_y == BoolU8(FGt(off[2], FMul(Half, scale))) * Y
    IN  BitOr(bits_x, bits_y)

\* u8 -> Quadrant; try_into().unwrap() panics outside the four values
try_into(bits) == IF bits \in Quadrants THEN bits ELSE "panic"

\* Quadrant::from_offset
from_offset(off, scale) == try_into(from_offset_bits(off, scale))

(***************************************************************************)
(* Node.  A node's boxed children live in the tree at the node's path      *)
(* extended by the quadrant; `children` holds which of the four are Some.  *)
(***************************************************************************)
MassData(position, mass) == [position |-> position, mass |-> mass]

NoChildren == <<FALSE, FALSE, FALSE, FALSE>>

Root == <<>>
Child(path, quadrant) == Append(path, quadrant)

\* Node::contains (identical in both crates)
contains(node, pos) ==
    \A i \in 1..2 :
        FGe(pos[i], node.pos[i]) /\ FLt(pos[i], FAdd(node.pos[i], node.scale))

\* gravsim-simulation Node::new_root
new_root(pos, scale) ==
    [pos |-> pos, scale |-> scale,
     center_of_mass |-> MassData(VZero, Zero),
     children |-> NoChildren, leaf |-> TRUE]

\* a faulty new_child that does not store the point it is created for
new_child_empty(parent, quadrant, mass_data) ==
    [pos |-> VAdd(parent.pos, VMul(VMul(offset(quadrant), parent.scale), Half)),
     scale |-> FMul(parent.scale, Half),
     center_of_mass |-> MassData(VZero, Zero),
     children |-> NoChildren, leaf |-> TRUE]

\* gravsim-simulation Node::new_child
new_child(parent, quadrant, mass_data) ==
    [pos |-> VAdd(parent.pos, VMul(VMul(offset(quadrant), parent.scale), Half)),
     scale |-> FMul(parent.scale, Half),
     center_of_mass |-> mass_data,
     children |-> NoChildren, leaf |-> TRUE]

\* gravsim-simulation Node::is_leaf
is_leaf(node) == node.leaf

\* src/ Node::new_root
app_new_root(pos, scale) ==
    [pos |-> pos, scale |-> scale,
     center_of_mass |-> MassData(VZero, Zero),
     children |-> NoChildren, depth |-> 0]

\* src/ Node::new_child
app_new_child(parent, quadrant, mass_data) ==
    [pos |-> VAdd(parent.pos, VMul(VMul(offset(quadrant), parent.scale), Half)),
     scale |-> FMul(parent.scale, Half),
     center_of_mass |-> mass_data,
     children |-> NoChildren, depth |-> parent.depth + 1]

\* src/ Node::is_leaf
app_is_leaf(node) == ~ \E q \in Quadrants : node.children[q + 1]

\* the result of a call that may exhaust the stack
Ok(t) == [ok |-> TRUE, tree |-> t]
Overflow(t) == [ok |-> FALSE, tree |-> t]

\* faulty variants of the update: one forgets `self.center_of_mass.mass +=
\* obj.mass`, the other averages the two positions without their weights
update_center_of_mass_drop_mass(com, obj) ==
    MassData(VDiv(VAdd(VMul(com.position, com.mass), VMul(obj.position, obj.mass)),
                  FAdd(com.mass, obj.mass)),
             com.mass)
update_center_of_mass_unweighted(com, obj) ==
    MassData(VDiv(VAdd(com.position, obj.position), FInt(2)),
             FAdd(com.mass, obj.mass))

\* gravsim-simulation Node::insert, the "update center of mass" statements
update_center_of_mass(com, obj) ==
    MassData(VDiv(VAdd(VMul(com.position, com.mass), VMul(obj.position, obj.mass)),
                  FAdd(com.mass, obj.mass)),
             FAdd(com.mass, obj.mass))

\* src/ Node::insert, the "update center of mass" statements
app_update_center_of_mass(com, obj) ==
    MassData(VDiv(VAdd(VMul(com.position, com.mass), VMul(obj.position, obj.mass)),
                  FAdd(com.mass, obj.mass)),
             FAdd(com.mass, obj.mass))

\* gravsim-simulation Node::insert and Node::insert_into on the node at
\* `path`; d is the number of insert frames on the stack, this one included.
\* split_leaf is the `if self.leaf` statement of insert, insert_new the
\* statements after it
RECURSIVE insert(_, _, _, _), insert_into(_, _, _, _, _)
RECURSIVE split_leaf(_, _, _), insert_new(_, _, _, _)

\* a faulty insert that lacks the `if self.center_of_mass.mass == 0.0` case
insert_no_first_case(t, path, obj, d) ==
    IF d > StackLimit THEN Overflow(t)
    ELSE IF FEq(obj.mass, Zero) THEN Ok(t)
    ELSE insert_new(split_leaf(t, path, d), path, obj, d)

insert(t, path, obj, d) ==
    IF d > StackLimit THEN Overflow(t)
    ELSE IF FEq(t[path].center_of_mass.mass, Zero)
    THEN Ok([t EXCEPT ![path].center_of_mass = obj])
    ELSE IF FEq(obj.mass, Zero) THEN Ok(t)
    ELSE insert_new(split_leaf(t, path, d), path, obj, d)

split_leaf(t, path, d) ==
    IF is_leaf(t[path])
    THEN insert_into(t, path,
             from_offset(VSub(t[path].center_of_mass.position, t[path].pos),
                         t[path].scale),
             t[path].center_of_mass, d)
    ELSE Ok(t)

insert_new(r, path, obj, d) ==
    IF ~r.ok THEN r
    ELSE insert_into([r.tree EXCEPT ![path].center_of_mass =
                          update_center_of_mass(r.tree[path].center_of_mass, obj)],
                     path,
                     from_offset(VSub(obj.position, r.tree[path].pos),
                                 r.tree[path].scale),
                     obj, d)

insert_into(t, path, quadrant, obj, d) ==
    IF t[path].children[quadrant + 1]
    THEN insert([t EXCEPT ![path].leaf = FALSE], Child(path, quadrant), obj, d + 1)
    ELSE Ok([t EXCEPT ![path].leaf = FALSE, ![path].children[quadrant + 1] = TRUE]
            @@ (Child(path, quadrant) :> new_child(t[path], quadrant, obj)))

\* the 1e-3 literal of src/ Node::insert
Tolerance == FRat(1, 1000)

\* src/ Node::insert on the node at `path`.  app_split is the
\* `if self.is_leaf()` statement, app_place the closing `match`
RECURSIVE app_insert(_, _, _, _), app_place(_, _, _, _, _)
app_split(t, path, quadrant) ==
    IF app_is_leaf(t[path])
    THEN [t EXCEPT ![path].children[quadrant + 1] = TRUE]
         @@ (Child(path, quadrant) :>
                 app_new_child(t[path], quadrant, t[path].center_of_mass))
    ELSE t

app_insert(t, path, obj, d) ==
    LET self == t[path]
        com == self.center_of_mass
    IN
    IF d > StackLimit THEN Overflow(t)
    ELSE IF FEq(com.mass, Zero)
    THEN Ok([t EXCEPT ![path].center_of_mass = obj])
    ELSE IF \/ FEq(obj.mass, Zero)
            \/ /\ FLt(FAbs(FSub(obj.position[1], com.position[1])), Tolerance)
               /\ FLt(FAbs(FSub(obj.position[2], com.position[2])), Tolerance)
    THEN Ok(t)
    ELSE app_place(
             [app_split(t, path, from_offset(VSub(com.position, self.pos), self.scale))
                  EXCEPT ![path].center_of_mass = app_update_center_of_mass(com, obj)],
             path,
             from_offset(VSub(obj.position, self.pos), self.scale),
             obj, d)

app_place(t, path, quadrant, obj, d) ==
    IF t[path].children[quadrant + 1]
    THEN app_insert(t, Child(path, quadrant), obj, d + 1)
    ELSE Ok([t EXCEPT ![path].children[quadrant + 1] = TRUE]
            @@ (Child(path, quadrant) :> app_new_child(t[path], quadrant, obj)))

(***************************************************************************)
(* The root square of Simulation::update and the harness that builds a     *)
(* tree by calling insert on a fresh root, one in-bounds point at a time   *)
(* (the loop of update, and of benches/gravity.rs).                        *)
(***************************************************************************)
SCALE == FInt(5000)
app_SCALE == FInt(1500)

Scale(v) == IF v = "lib" THEN SCALE ELSE app_SCALE

\* Node::new_root(-Vector2::repeat(SCALE / 2.0), SCALE)
FreshTree(v) ==
    LET corner == FNeg(FDiv(Scale(v), FInt(2)))
    IN  Root :> (IF v = "lib" THEN new_root(Vec(corner, corner), Scale(v))
                 ELSE app_new_root(Vec(corner, corner), Scale(v)))

\* tree.insert(obj) on the root
RootInsert(v, t, obj) ==
    IF v = "lib" THEN insert(t, Root, obj, 1) ELSE app_insert(t, Root, obj, 1)

\* a point at (kx, ky) eighths of the root square's width from its centre
Pt(v, kx, ky, m) ==
    LET u == FDiv(Scale(v), FInt(8))
    IN  MassData(Vec(FMul(FInt(kx), u), FMul(FInt(ky), u)), FInt(m))

\* a mass whose sums with small masses need more than MantBits bits
BigMass == (2 ^ MantBits) - 1

\* the points the harness draws from: the centre (on the tie line of both
\* axes) with and without mass, two points symmetric about it, the lower
\* corner, a second massless point, a heavy point, and a point whose
\* centroid with the corner is not a float
Pool(v) ==
    { Pt(v, 0, 0, 1), Pt(v, 0, 0, 0), Pt(v, -2, 0, 1), Pt(v, 2, 0, 1),
      Pt(v, -3, 2, 1), Pt(v, -4, -4, 2), Pt(v, 2, 2, 0), Pt(v, -4, 2, BigMass) }

Variants == {"lib", "app"}

Init ==
    /\ variant \in Variants
    /\ tree = FreshTree(variant)
    /\ status = "ok"
    /\ points = <<>>
    /\ stars = <<>>
    /\ stars0 = <<>>
    /\ phase = "harness"
    /\ pending = {}
    /\ steps = 0

Insert(obj) ==
    /\ status = "ok"
    /\ Len(points) < MaxPoints
    /\ contains(tree[Root], obj.position)
    /\ \E r \in {RootInsert(variant, tree, obj)} :
           /\ tree' = r.tree
           /\ status' = IF r.ok THEN "ok" ELSE "stack_overflow"
    /\ points' = Append(points, obj)
    /\ UNCHANGED <<variant, stars, stars0, phase, pending, steps>>

Next == \E obj \in Pool(variant) : Insert(obj)

Spec == Init /\ [][Next]_vars

(***************************************************************************)
(* Node::force_on.                                                         *)
(***************************************************************************)
THETA == <<5, -2>>
GRAVITY == FRat(1, 10000)
EPSILON == FRat(1, 20)

\* a faulty traversal that descends into the first present child only
ChildPaths_first(t, path) ==
    LET Pick(q) == IF t[path].children[q + 1] THEN <<Child(path, q)>> ELSE <<>>
        all == Pick(0) \o Pick(1) \o Pick(2) \o Pick(3)
    IN  IF all = <<>> THEN <<>> ELSE <<Head(all)>>

\* the children of a node that are Some, in index order
ChildPaths(t, path) ==
    LET Pick(q) == IF t[path].children[q + 1] THEN <<Child(path, q)>> ELSE <<>>
    IN  Pick(0) \o Pick(1) \o Pick(2) \o Pick(3)

Cube(x) == FMul(FMul(x, x), x)

\* gravsim-simulation Node::force_on: the body of the `while let` loop, run
\* until the queue is empty; yields force_part
RECURSIVE bfs(_, _, _, _)
bfs(t, queue, obj, force_part) ==
    IF queue = <<>> THEN force_part
    ELSE LET node == t[Head(queue)]
             diff == VSub(node.center_of_mass.position, obj.position)
             dist == FSqrt(FAdd(EPSILON, NormSquared(diff)))
             q == FDiv(node.scale, dist)
         IN  IF FLt(q, THETA) \/ is_leaf(node)
             THEN bfs(t, Tail(queue), obj,
                      VAdd(force_part,
                           VMul(VDiv(diff, Cube(dist)), node.center_of_mass.mass)))
             ELSE bfs(t, Tail(queue) \o ChildPaths(t, Head(queue)), obj, force_part)

\* gravsim-simulation Node::force_on, called on the root
force_on(t, obj) ==
    VMul(bfs(t, <<Root>>, obj, VZero), FMul(GRAVITY, obj.mass))

app_THETA == <<5, -2>>
app_GRAVITY == FRat(1, 10000)
app_EPSILON == <<1, -3>>

\* src/ Node::force_on on the node at path
RECURSIVE app_force_on(_, _, _), app_sum(_, _, _, _)
app_force_on(t, path, obj) ==
    LET self == t[path]
        diff == VSub(self.center_of_mass.position, obj.position)
        dist == FSqrt(FAdd(app_EPSILON, NormSquared(diff)))
        q == FDiv(self.scale, dist)
    IN  IF FLt(q, app_THETA) \/ (IsNormal(q) /\ app_is_leaf(self))
        THEN VMul(VMul(VDiv(VMul(diff, app_GRAVITY), Cube(dist)),
                       self.center_of_mass.mass),
                  obj.mass)
        ELSE app_sum(t, ChildPaths(t, path), obj, VZero)

\* the .map(|c| c.force_on(obj)).sum() over the children
app_sum(t, cs, obj, acc) ==
    IF cs = <<>> THEN acc
    ELSE app_sum(t, Tail(cs), obj, VAdd(acc, app_force_on(t, Head(cs), obj)))

(***************************************************************************)
(* Simulation::update, in three parts: the sequential tree build, the      *)
(* tasks of the parallel pass (par_iter_mut hands each task one star       *)
(* exclusively and the tree shared; they run in any order), and the        *)
(* sequential pass that follows.                                           *)
(***************************************************************************)
TIME_STEP == FInt(3600 * 24 * 7)

Star(pos, vel, mass) == [mass_point |-> MassData(pos, mass), vel |-> vel]

\* a faulty loop that lacks the `if tree.contains(star.pos())` test
RECURSIVE build_all(_, _, _, _, _), build_all_next(_, _, _, _, _)
build_all(v, t, ss, i, log) ==
    IF i > Len(ss) THEN [ok |-> TRUE, tree |-> t, log |-> log]
    ELSE build_all_next(v, RootInsert(v, t, ss[i].mass_point), ss, i,
                        Append(log, ss[i].mass_point))

build_all_next(v, r, ss, i, log) ==
    IF r.ok THEN build_all(v, r.tree, ss, i + 1, log)
    ELSE [ok |-> FALSE, tree |-> r.tree, log |-> log]

\* the `for star in &self.stars` loop of update, from index i on; log is the
\* sequence of the insert calls made, and r the outcome of the i-th one
RECURSIVE build(_, _, _, _, _), build_next(_, _, _, _, _)
build(v, t, ss, i, log) ==
    IF i > Len(ss) THEN [ok |-> TRUE, tree |-> t, log |-> log]
    ELSE IF contains(t[Root], ss[i].mass_point.position)
    THEN build_next(v, RootInsert(v, t, ss[i].mass_point), ss, i,
                    Append(log, ss[i].mass_point))
    ELSE build(v, t, ss, i + 1, log)

build_next(v, r, ss, i, log) ==
    IF r.ok THEN build(v, r.tree, ss, i + 1, log)
    ELSE [ok |-> FALSE, tree |-> r.tree, log |-> log]

\* gravsim-simulation update: `star.vel += force / mass; star.pos += star.vel`
lib_accelerate(star, force) ==
    [star EXCEPT !.vel = VAdd(star.vel, VDiv(force, star.mass_point.mass))]
lib_move(star) ==
    [star EXCEPT !.mass_point.position = VAdd(star.mass_point.position, star.vel)]

\* a faulty parallel pass that lacks the `.filter(|star| tree.contains(..))`
lib_task_unfiltered(t, star) ==
    lib_move(lib_accelerate(star, force_on(t, star.mass_point)))

\* gravsim-simulation update: the closure of the parallel for_each
lib_task(t, star) ==
    IF contains(t[Root], star.mass_point.position)
    THEN lib_move(lib_accelerate(star, force_on(t, star.mass_point)))
    ELSE star

\* src/ update: the closure of the parallel for_each
app_task(t, star) ==
    IF contains(t[Root], star.mass_point.position)
    THEN [star EXCEPT !.vel = VAdd(star.vel,
                                   VDiv(app_force_on(t, Root, star.mass_point),
                                        star.mass_point.mass))]
    ELSE star

\* a faulty closing pass that marks nothing
lib_mark_none(t, star) == star

\* gravsim-simulation update: the closing pass marks the stars outside the root
lib_mark(t, star) ==
    IF ~contains(t[Root], star.mass_point.position)
    THEN [star EXCEPT !.mass_point.position = Vec(NaN, NaN)]
    ELSE star

\* src/ update: the integration step
app_integrate(star) ==
    [star EXCEPT !.mass_point.position =
                     VAdd(star.mass_point.position, VMul(star.vel, TIME_STEP))]

NoTree == <<>>

\* update, up to the start of the parallel pass
Build ==
    /\ phase = "idle"
    /\ status = "ok"
    /\ steps < MaxSteps
    /\ \E r \in {build(variant, FreshTree(variant), stars, 1, <<>>)} :
           /\ tree' = r.tree
           /\ points' = r.log
           /\ status' = IF r.ok THEN "ok" ELSE "stack_overflow"
           /\ phase' = IF r.ok THEN "force" ELSE "idle"
           /\ pending' = IF r.ok THEN 1..Len(stars) ELSE {}
    /\ stars0' = stars
    /\ steps' = steps + 1
    /\ UNCHANGED <<variant, stars>>

\* a faulty task that computes its force from the stars as they are now, some
\* of them already moved, instead of from the tree built before the pass
Task_live(i) ==
    /\ phase = "force"
    /\ i \in pending
    /\ \E r \in {build(variant, FreshTree(variant), stars, 1, <<>>)} :
           stars' = [stars EXCEPT ![i] = IF variant = "lib" THEN lib_task(r.tree, stars[i])
                                         ELSE app_task(r.tree, stars[i])]
    /\ pending' = pending \ {i}
    /\ UNCHANGED <<variant, tree, status, points, stars0, phase, steps>>

\* a faulty task whose traversal consumes the aggregates it has read
Task_consuming(i) ==
    /\ phase = "force"
    /\ i \in pending
    /\ stars' = [stars EXCEPT ![i] = IF variant = "lib" THEN lib_task(tree, stars[i])
                                     ELSE app_task(tree, stars[i])]
    /\ pending' = pending \ {i}
    /\ tree' = [tree EXCEPT ![Root].center_of_mass.mass = Zero]
    /\ UNCHANGED <<variant, status, points, stars0, phase, steps>>

\* one task of the parallel pass
Task(i) ==
    /\ phase = "force"
    /\ i \in pending
    /\ stars' = [stars EXCEPT ![i] = IF variant = "lib" THEN lib_task(tree, stars[i])
                                     ELSE app_task(tree, stars[i])]
    /\ pending' = pending \ {i}
    /\ UNCHANGED <<variant, tree, status, points, stars0, phase, steps>>

\* a faulty closing pass that drops the removed stars from the collection
\* (a `retain`) instead of leaving them in place
Finish_removing ==
    /\ phase = "force"
    /\ pending = {}
    /\ stars' = SelectSeq([i \in 1..Len(stars) |->
                               IF variant = "lib" THEN lib_mark(tree, stars[i])
                               ELSE app_integrate(stars[i])],
                          LAMBDA s : s.mass_point.position # Vec(NaN, NaN))
    /\ phase' = "idle"
    /\ tree' = NoTree
    /\ UNCHANGED <<variant, status, points, stars0, pending, steps>>

\* a faulty closing pass that tests the positions the stars had at the
\* start of the step, not the integrated ones
Finish_mark_at_start ==
    /\ phase = "force"
    /\ pending = {}
    /\ stars' = [i \in 1..Len(stars) |->
                     IF variant = "lib" THEN
                         (IF ~contains(tree[Root], stars0[i].mass_point.position)
                          THEN [stars[i] EXCEPT !.mass_point.position = Vec(NaN, NaN)]
                          ELSE stars[i])
                     ELSE app_integrate(stars[i])]
    /\ phase' = "idle"
    /\ tree' = NoTree
    /\ UNCHANGED <<variant, status, points, stars0, pending, steps>>

\* the rest of update, once the parallel pass has joined
Finish ==
    /\ phase = "force"
    /\ pending = {}
    /\ stars' = [i \in 1..Len(stars) |->
                     IF variant = "lib" THEN lib_mark(tree, stars[i])
                     ELSE app_integrate(stars[i])]
    /\ phase' = "idle"
    /\ tree' = NoTree
    /\ UNCHANGED <<variant, status, points, stars0, pending, steps>>

\* eighths of the root square's width, and the speed that covers one in a step
Unit(v) == FDiv(Scale(v), FInt(8))
Speed(v) == IF v = "lib" THEN Unit(v) ELSE FDiv(Unit(v), TIME_STEP)

StarAt(v, kx, ky, vx, vy, m) ==
    Star(Vec(FMul(FInt(kx), Unit(v)), FMul(FInt(ky), Unit(v))),
         Vec(FMul(FInt(vx), Speed(v)), FMul(FInt(vy), Speed(v))),
         FInt(m))

\* the stars a simulation starts with: two in bounds (one at rest, one
\* moving), one on the excluded upper edge moving inwards, one about to
\* leave, and a massless one at the centre
StarPool(v) ==
    { StarAt(v, -2, 0, 0, 0, 1), StarAt(v, 2, 0, 1, 0, 2), StarAt(v, 4, 0, -1, 0, 1),
      StarAt(v, 3, 3, 2, 0, 2), StarAt(v, 0, 0, 0, 0, 0) }

NumStars == 3

InitSim ==
    /\ variant \in Variants
    /\ stars \in [1..NumStars -> StarPool(variant)]
    /\ stars0 = stars
    /\ tree = NoTree
    /\ status = "ok"
    /\ points = <<>>
    /\ phase = "idle"
    /\ pending = {}
    /\ steps = 0

NextSim ==
    \/ Build
    \/ \E i \in 1..Len(stars) : Task(i)
    \/ Finish

SpecSim == InitSim /\ [][NextSim]_vars

(***************************************************************************)
(* Properties of the tree built by the harness.                            *)
(***************************************************************************)
Front(s) == SubSeq(s, 1, Len(s) - 1)
Last(s) == s[Len(s)]

\* the f32 sum of the masses, accumulated in call order
RECURSIVE SumMass(_)
SumMass(s) == IF s = <<>> THEN Zero ELSE FAdd(SumMass(Front(s)), Last(s).mass)

\* the integer a float with a nonnegative exponent stands for
ToInt(x) == x[1] * (2 ^ x[2])

\* the exact sums of position * mass and of |position| * mass on one
\* axis (the pool's lib coordinates and masses are integers)
RECURSIVE ExactMoment(_, _), ExactAbsMoment(_, _)
ExactMoment(s, i) ==
    IF s = <<>> THEN 0
    ELSE ExactMoment(Front(s), i) + ToInt(Last(s).position[i]) * ToInt(Last(s).mass)
ExactAbsMoment(s, i) ==
    IF s = <<>> THEN 0
    ELSE ExactAbsMoment(Front(s), i)
         + Abs(ToInt(Last(s).position[i])) * ToInt(Last(s).mass)

LibDone == variant = "lib" /\ status = "ok"
AppDone == variant = "app" /\ status = "ok"
RootCom == tree[Root].center_of_mass

\* C1: in the gravsim-simulation tree, after every insert of in-bounds points
\* with mass >= 0 has returned, the root's aggregate mass is the f32 sum of
\* the inserted masses, each counted once, whatever the order of the calls.
C1_MassConservation == LibDone => RootCom.mass = SumMass(points)

\* a massless point came first and three massive points followed
C1_Witness ==
    /\ LibDone /\ Len(points) >= 3
    /\ points[1].mass = Zero
    /\ \A i \in 2..Len(points) : points[i].mass # Zero
    /\ ~is_leaf(tree[Root])

\* the tree after inserting ps[i], ps[i + 1], ... into t
RECURSIVE InsertAll(_, _, _, _)
InsertAll(v, t, ps, i) ==
    IF i > Len(ps) THEN t ELSE InsertAll(v, RootInsert(v, t, ps[i]).tree, ps, i + 1)

\* the sequences that hold the elements of s in another order
Orders(s) ==
    { [k \in 1..Len(s) |-> s[f[k]]] :
          f \in { g \in [1..Len(s) -> 1..Len(s)] :
                      \A a, b \in 1..Len(s) : a # b => g[a] # g[b] } }

Ulp == <<1, -MantBits>>

\* the rounding allowance of n accumulated centroid updates on axis i
Tolerance2(s, i) == FMul(FInt(4 * Len(s)), FMul(Ulp, FInt(ExactAbsMoment(s, i))))

Prefix(p, q) == Len(p) <= Len(q) /\ SubSeq(q, 1, Len(p)) = p
Occupied(t, q) == t[q].children = NoChildren /\ t[q].center_of_mass.mass # Zero

\* C3: in every tree built from in-bounds points, every node's square
\* [pos, pos + scale) contains every point stored in it or below it.
C3_Containment ==
    LibDone =>
        \A p \in DOMAIN tree : \A q \in DOMAIN tree :
            Prefix(p, q) /\ Occupied(tree, q)
                => contains(tree[p], tree[q].center_of_mass.position)

\* C4: every insert call on the gravsim-simulation tree returns: the
\* recursion never runs out of stack.
C4_InsertReturns == variant = "lib" => status = "ok"

\* the stored points are nonzero-mass and pairwise at least the tolerance
\* apart on some axis
Separated(s) ==
    /\ \A i \in 1..Len(s) : s[i].mass # Zero
    /\ \A i, j \in 1..Len(s) :
           i # j => \E a \in 1..2 :
               FGe(FAbs(FSub(s[i].position[a], s[j].position[a])), Tolerance)

\* C5: in the src/ tree, for nonzero-mass in-bounds points pairwise at least
\* the tolerance apart, the root's aggregate mass after the last insert is
\* the sum of the inserted masses.
C5_AppMassConservation ==
    (AppDone /\ Separated(points)) => RootCom.mass = SumMass(points)

(***************************************************************************)
(* Properties of Simulation::update.                                       *)
(***************************************************************************)
\* the root node of the running update's tree
RootSquare == FreshTree(variant)[Root]

\* star i was inside / outside the root square when the update began
InAtStart(i) == contains(RootSquare, stars0[i].mass_point.position)
OutAtStart(i) == ~InAtStart(i)

\* the parallel pass has joined; update has returned
PassDone == phase = "force" /\ pending = {}
Returned == phase = "idle" /\ steps > 0 /\ status = "ok"

\* the closure of the parallel pass, as a function of the tree and one star
TaskOf(v, t, star) == IF v = "lib" THEN lib_task(t, star) ELSE app_task(t, star)

\* the tasks run one after the other in index order, from index i on
RECURSIVE SeqPass(_, _, _, _)
SeqPass(v, t, ss, i) ==
    IF i > Len(ss) THEN ss
    ELSE SeqPass(v, t, [ss EXCEPT ![i] = TaskOf(v, t, ss[i])], i + 1)

\* the sequential pass that closes update
Closing(v, t, ss) ==
    [i \in 1..Len(ss) |-> IF v = "lib" THEN lib_mark(t, ss[i]) ELSE app_integrate(ss[i])]

\* update run on ss with the tasks in index order
SeqUpdateOn(v, t, ss) == Closing(v, t, SeqPass(v, t, ss, 1))
SeqUpdate(v, ss) == SeqUpdateOn(v, build(v, FreshTree(v), ss, 1, <<>>).tree, ss)

\* C6: whatever the order in which the tasks of the parallel pass ran, when
\* the pass has joined every star is what running the tasks one after the
\* other in index order on the start-of-step tree yields, and so are the
\* stars when update returns (both variants).
C6_InterleavingIndependence ==
    /\ PassDone => stars = SeqPass(variant, tree, stars0, 1)
    /\ Returned => stars = SeqUpdate(variant, stars0)

\* the pass has joined and moved at least two stars of gravsim-simulation
C6_Witness ==
    /\ PassDone /\ variant = "lib"
    /\ \E i, j \in 1..Len(stars) :
           /\ i # j
           /\ stars[i].vel # stars0[i].vel /\ stars[j].vel # stars0[j].vel
           /\ stars[i].mass_point.position # stars0[i].mass_point.position

\* C7: a step in which a task calls force_on leaves every node of the tree
\* as it was: pos, scale, aggregate, children and leaf status (both variants).
C7_ForceOnReadOnly ==
    [][(phase = "force" /\ pending' # pending) => tree' = tree]_vars

\* force_on has returned a nonzero force from a tree with inner nodes
C7_Witness ==
    /\ phase = "force"
    /\ Cardinality(DOMAIN tree) >= 3
    /\ \E i \in 1..Len(stars) : i \notin pending /\ stars[i].vel # stars0[i].vel

\* the mass points of the stars inside the root square, in index order
RECURSIVE InBounds(_, _, _)
InBounds(v, ss, i) ==
    IF i > Len(ss) THEN <<>>
    ELSE (IF contains(FreshTree(v)[Root], ss[i].mass_point.position)
          THEN <<ss[i].mass_point>> ELSE <<>>) \o InBounds(v, ss, i + 1)

\* C8: in every update whose tree build returned, insert was called on the
\* root exactly for the stars inside the root square at the start of the
\* step, in index order, never with a position outside it, and the tree the
\* forces are computed from is the tree of those stars alone (both variants).
C8_OutOfBoundsExclusion ==
    phase = "force" =>
        /\ points = InBounds(variant, stars0, 1)
        /\ \A k \in 1..Len(points) : contains(RootSquare, points[k].position)
        /\ tree = InsertAll(variant, FreshTree(variant), points, 1)

\* a tree was built from two stars while a third, massive one was left out
C8_Witness ==
    /\ phase = "force"
    /\ Len(points) = 2 /\ Len(stars0) > 2
    /\ \E i \in 1..Len(stars0) : OutAtStart(i) /\ stars0[i].mass_point.mass # Zero

\* C9: when update of gravsim-simulation returns, every star that was
\* outside the root square at the start of the step has NaN on both axes of
\* its position and the velocity it had at the start.
C9_MarkRemoved ==
    (variant = "lib" /\ Returned) =>
        \A i \in 1..Len(stars) :
            OutAtStart(i) =>
                /\ stars[i].mass_point.position = Vec(NaN, NaN)
                /\ stars[i].vel = stars0[i].vel

\* update returned with a moving star that began outside the root square and
\* another that was inside it
C9_Witness ==
    /\ variant = "lib" /\ Returned
    /\ \E i, j \in 1..Len(stars) :
           /\ OutAtStart(i) /\ stars0[i].vel # VZero
           /\ stars0[i].mass_point.position # Vec(NaN, NaN)
           /\ InAtStart(j)

\* C10: when update of src/ returns, every star that was outside the root
\* square at the start of the step is unmodified: its position and its
\* velocity are those it had at the start.
C10_FreezeInPlace ==
    (variant = "app" /\ Returned) =>
        \A i \in 1..Len(stars) : OutAtStart(i) => stars[i] = stars0[i]

\* the divisor of `star.vel += force / star.mass()` in the task of star i
Divisor(i) == stars0[i].mass_point.mass

\* C11: update reaches no error state, and every task that has run for a star
\* inside the root square divided the force by a nonzero mass (both variants).
C11_UpdateTotal ==
    /\ status = "ok"
    /\ phase = "force" =>
           \A i \in (1..Len(stars)) \ pending : InAtStart(i) => Divisor(i) # Zero

\* Node::insert called on the node at `path` of the variant's tree
NodeInsert(v, t, path, obj) ==
    IF v = "lib" THEN insert(t, path, obj, 1) ELSE app_insert(t, path, obj, 1)

\* C12: inserting a point of mass zero is a no-op on every reachable node,
\* the fresh root (whose own mass is zero) included: it returns, and the
\* node's aggregate position and mass, its children and its leaf status, and
\* with them the whole tree, are what they were before the call.
C12_ZeroMassNoOp ==
    status = "ok" =>
        \A path \in DOMAIN tree : \A obj \in Pool(variant) :
            obj.mass = Zero =>
                \E r \in {NodeInsert(variant, tree, path, obj)} :
                    r.ok /\ r.tree = tree

\* C13: no step of update adds, removes or reorders a star or changes a
\* mass: the collection keeps its length and every index keeps its mass (the
\* build, every task of the parallel pass and the closing pass; both variants).
C13_IndexStable ==
    [][/\ Len(stars') = Len(stars)
       /\ \A i \in 1..Len(stars) :
              stars'[i].mass_point.mass = stars[i].mass_point.mass]_vars

\* two updates have returned on stars of different masses, one of which has
\* moved and one of which has lost its position
C13_Witness ==
    /\ Returned /\ steps = 2
    /\ \E i, j, k \in 1..Len(stars) :
           /\ stars[i].mass_point.mass # stars[j].mass_point.mass
           /\ stars[i].mass_point.position # stars0[i].mass_point.position
           /\ stars[i].mass_point.position # Vec(NaN, NaN)
           /\ stars[k].mass_point.position = Vec(NaN, NaN)

\* the node at `path` has no children and counts as a leaf
Childless(v, node) ==
    /\ node.children = NoChildren
    /\ IF v = "lib" THEN is_leaf(node) ELSE app_is_leaf(node)

\* C14: the first insertion is special-cased.  When a point of nonzero mass
\* is inserted into a node whose aggregate mass is zero (the root, fresh or
\* after massless points only), the node stores exactly that point and no
\* child is created: the tree is the root alone, a leaf with all four
\* children absent (both variants).
C14_FirstInsertion ==
    ( /\ status = "ok" /\ phase = "harness" /\ points # <<>>
      /\ Last(points).mass # Zero
      /\ \A k \in 1..(Len(points) - 1) : points[k].mass = Zero )
    => /\ DOMAIN tree = {Root}
       /\ RootCom = Last(points)
       /\ Childless(variant, tree[Root])

\* a massive point was inserted into a root that held a massless point
\* away from the centre
C14_Witness ==
    /\ status = "ok" /\ phase = "harness" /\ Len(points) = 2
    /\ points[1].mass = Zero /\ points[1].position # VZero
    /\ points[2].mass # Zero
    /\ RootCom = points[2]

\* the positions from_offset is asked about: the pool's points and two
\* positions that are not finite
Probes(v) ==
    {obj.position : obj \in Pool(v)} \cup {Vec(NaN, NaN), Vec(PosInf, NegInf)}

\* C15: for every node of a reachable tree and every position, from_offset
\* of the position's offset from the node's corner is one of the four
\* quadrants (try_into().unwrap() does not panic), its bit 0 is set exactly
\* when offset.x > scale / 2 and its bit 1 exactly when offset.y > scale / 2,
\* strictly, so a tie goes to the lower half (both variants).
C15_FromOffset ==
    \A path \in DOMAIN tree : \A pos \in Probes(variant) :
        \E off \in {VSub(pos, tree[path].pos)} :
        \E q \in {from_offset(off, tree[path].scale)} :
            /\ q \in {NorthWest, NorthEast, SouthWest, SouthEast}
            /\ (q % 2 = 1) <=> FGt(off[1], FDiv(tree[path].scale, FInt(2)))
            /\ (q \div 2 = 1) <=> FGt(off[2], FDiv(tree[path].scale, FInt(2)))

\* the root was split: the point at its centre, a tie on both axes, went
\* to NorthWest, and a point tied on y alone went to NorthEast
C15_Witness ==
    /\ status = "ok" /\ phase = "harness" /\ Len(points) = 2
    /\ points[1].position = VZero
    /\ Child(Root, NorthWest) \in DOMAIN tree
    /\ tree[Child(Root, NorthWest)].center_of_mass = points[1]
    /\ Child(Root, NorthEast) \in DOMAIN tree
    /\ tree[Child(Root, NorthEast)].center_of_mass = points[2]

\* the positions of s are pairwise distinct
Distinct(s) ==
    \A i, j \in 1..Len(s) : i # j => s[i].position # s[j].position

\* the sums over the nodes at the paths cs of the aggregate mass (exactly,
\* the masses being integers, and in f32) and of position * mass (in f32)
RECURSIVE MassOf(_, _), FMassOf(_, _), MomentOf(_, _)
MassOf(t, cs) ==
    IF cs = <<>> THEN 0
    ELSE ToInt(t[Head(cs)].center_of_mass.mass) + MassOf(t, Tail(cs))
FMassOf(t, cs) ==
    IF cs = <<>> THEN Zero
    ELSE FAdd(FMassOf(t, Front(cs)), t[Last(cs)].center_of_mass.mass)
MomentOf(t, cs) ==
    IF cs = <<>> THEN VZero
    ELSE VAdd(MomentOf(t, Front(cs)),
              VMul(t[Last(cs)].center_of_mass.position, t[Last(cs)].center_of_mass.mass))

\* from_offset sends pos down the path, from the root to the node at path
Routed(t, pos, path) ==
    \A k \in 1..Len(path) :
        from_offset(VSub(pos, t[SubSeq(path, 1, k - 1)].pos),
                    t[SubSeq(path, 1, k - 1)].scale) = path[k]

\* every inner node has a child, and every child has a point routed into it
Structure(t, ps) ==
    \A path \in DOMAIN t :
        /\ ~is_leaf(t[path]) => ChildPaths(t, path) # <<>>
        /\ path # Root =>
               \E k \in 1..Len(ps) :
                   ps[k].mass # Zero /\ Routed(t, ps[k].position, path)

\* C16 as stated: after inserts of in-bounds points at pairwise distinct
\* positions into gravsim-simulation's tree, every node whose leaf flag is
\* false has a child, its aggregate mass is the sum of its children's
\* aggregate masses and its position * mass the sum of theirs, and a child
\* exists only where an inserted point was classified.
C16_SubtreeAggregationExact ==
    (LibDone /\ Distinct(points)) =>
        /\ Structure(tree, points)
        /\ \A path \in DOMAIN tree :
               ~is_leaf(tree[path]) =>
                   /\ ToInt(tree[path].center_of_mass.mass)
                          = MassOf(tree, ChildPaths(tree, path))
                   /\ VMul(tree[path].center_of_mass.position,
                           tree[path].center_of_mass.mass)
                          = MomentOf(tree, ChildPaths(tree, path))

\* the rounding allowance of a node's aggregate after n inserts: on the
\* mass, and on position * mass (no coordinate exceeds half the root's width)
MassSlack(n, com) == FMul(FInt(4 * n), FMul(Ulp, com.mass))
MomentSlack(n, com) == FMul(MassSlack(n, com), FMul(Half, SCALE))

\* C16 (amended): the structure holds as stated, and the sums hold up to the
\* rounding of the updates: a node's aggregate mass differs from the sum of
\* its children's by at most 4 * n * 2^-MantBits times that mass, and its
\* position * mass from the sum of theirs, on each axis, by at most that
\* bound times half the root's width, n being the number of insert calls.
C16_SubtreeAggregation ==
    (LibDone /\ Distinct(points)) =>
        /\ Structure(tree, points)
        /\ \A path \in DOMAIN tree :
               ~is_leaf(tree[path]) =>
                   \E com \in {tree[path].center_of_mass} :
                   \E cs \in {ChildPaths(tree, path)} :
                       /\ ~FGt(FAbs(FSub(com.mass, FMassOf(tree, cs))),
                               MassSlack(Len(points), com))
                       /\ \A i \in 1..2 :
                              ~FGt(FAbs(FSub(FMul(com.position[i], com.mass),
                                             MomentOf(tree, cs)[i])),
                                   MomentSlack(Len(points), com))

\* three distinct massive points, one of them heavy, made a root with two
\* children whose aggregate mass is not the sum of theirs
C16_Witness ==
    /\ LibDone /\ Distinct(points) /\ Len(points) = 3
    /\ \A k \in 1..3 : points[k].mass # Zero
    /\ ~is_leaf(tree[Root]) /\ Len(ChildPaths(tree, Root)) = 2
    /\ ToInt(RootCom.mass) # MassOf(tree, ChildPaths(tree, Root))

\* C17: in the src/ tree, after inserts of in-bounds nonzero-mass points,
\* one of which may lie within the tolerance of an earlier one, every node
\* that has a child has an aggregate mass equal to the sum of its children's
\* aggregate masses (here: equal up to the rounding of the f32 sums), so a
\* point the duplicate guard skipped was added to no ancestor's aggregate.
C17_AppSubtreeAggregation ==
    (AppDone /\ \A k \in 1..Len(points) : points[k].mass # Zero) =>
        \A path \in DOMAIN tree :
            ChildPaths(tree, path) # <<>> =>
                ~FGt(FAbs(FSub(tree[path].center_of_mass.mass,
                               FMassOf(tree, ChildPaths(tree, path)))),
                     MassSlack(Len(points), tree[path].center_of_mass))

(***************************************************************************)
(* The traversal of Node::force_on, recording the nodes it visits and the  *)
(* nodes whose aggregate it adds to the sum.                               *)
(***************************************************************************)
\* gravsim-simulation force_on: `if q < Simulation::THETA || node.leaf`
lib_accepts(node, pos) ==
    \E dist \in {FSqrt(FAdd(EPSILON,
                            NormSquared(VSub(node.center_of_mass.position, pos))))} :
        FLt(FDiv(node.scale, dist), THETA) \/ is_leaf(node)

\* src/ force_on: `if q < Self::THETA || (q.is_normal() && self.is_leaf())`
app_accepts(node, pos) ==
    \E dist \in {FSqrt(FAdd(app_EPSILON,
                            NormSquared(VSub(node.center_of_mass.position, pos))))} :
    \E q \in {FDiv(node.scale, dist)} :
        FLt(q, app_THETA) \/ (IsNormal(q) /\ app_is_leaf(node))

Visit(path, tr) == [visited |-> Append(tr.visited, path), used |-> tr.used]
Use(path, tr) ==
    [visited |-> Append(tr.visited, path), used |-> Append(tr.used, path)]
NoVisit == [visited |-> <<>>, used |-> <<>>]

\* gravsim-simulation force_on: the `while let Some(node) = queue.pop_front()`
\* loop, run until the queue is empty
RECURSIVE bfs_visit(_, _, _, _)
bfs_visit(t, queue, pos, tr) ==
    IF queue = <<>> THEN tr
    ELSE IF lib_accepts(t[Head(queue)], pos)
    THEN bfs_visit(t, Tail(queue), pos, Use(Head(queue), tr))
    ELSE bfs_visit(t, Tail(queue) \o ChildPaths(t, Head(queue)), pos,
                   Visit(Head(queue), tr))

\* src/ force_on: the recursion over the children
RECURSIVE app_visit(_, _, _, _), app_visit_all(_, _, _, _)
app_visit(t, path, pos, tr) ==
    IF app_accepts(t[path], pos) THEN Use(path, tr)
    ELSE app_visit_all(t, ChildPaths(t, path), pos, Visit(path, tr))

app_visit_all(t, cs, pos, tr) ==
    IF cs = <<>> THEN tr
    ELSE app_visit_all(t, Tail(cs), pos, app_visit(t, Head(cs), pos, tr))

\* the traversal of force_on called on the root for a target at pos
Traversal(v, t, pos) ==
    IF v = "lib" THEN bfs_visit(t, <<Root>>, pos, NoVisit)
    ELSE app_visit(t, Root, pos, NoVisit)

\* the leaves of the tree
Leaves(v, t) ==
    {p \in DOMAIN t : IF v = "lib" THEN is_leaf(t[p]) ELSE app_is_leaf(t[p])}

\* the targets of the queries: the probes and a finite position far outside
Targets(v) == Probes(v) \cup {Pt(v, 40, 0, 1).position}

\* every leaf has exactly one used node among itself and its ancestors, and
\* no node is visited twice
CountedOnce(v, t, tr) ==
    /\ \A leaf \in Leaves(v, t) :
           Cardinality({k \in 1..Len(tr.used) : Prefix(tr.used[k], leaf)}) = 1
    /\ \A a, b \in 1..Len(tr.visited) : a # b => tr.visited[a] # tr.visited[b]
    /\ Len(tr.visited) <= Cardinality(DOMAIN t)

Removed == Vec(NaN, NaN)

\* the position the task of star i gave it in the step that has returned
Integrated(i) ==
    lib_task(build(variant, FreshTree(variant), stars0, 1, <<>>).tree,
             stars0[i]).mass_point.position

\* C19: when update of gravsim-simulation returns, every star's position is
\* inside the root square or is the removed sentinel; a star that was inside
\* at the start of the step and whose integrated position is outside has the
\* sentinel when that same update returns.
C19_PostStepPosition ==
    (variant = "lib" /\ Returned) =>
        \A i \in 1..Len(stars) :
            /\ \/ contains(RootSquare, stars[i].mass_point.position)
               \/ stars[i].mass_point.position = Removed
            /\ (InAtStart(i) /\ ~contains(RootSquare, Integrated(i)))
                   => stars[i].mass_point.position = Removed

\* a massive star inside the square at the start of the step left it and
\* has the sentinel, and another star moved and stayed inside
C19_Witness ==
    /\ variant = "lib" /\ Returned
    /\ \E i, j \in 1..Len(stars) :
           /\ InAtStart(i) /\ stars0[i].mass_point.mass # Zero
           /\ ~IsNaN(Integrated(i)[1])
           /\ stars[i].mass_point.position = Removed
           /\ stars[j].mass_point.position # stars0[j].mass_point.position
           /\ contains(RootSquare, stars[j].mass_point.position)

\* star i of gravsim-simulation has the removed sentinel as its position
IsRemoved(i) == variant = "lib" /\ stars[i].mass_point.position = Removed

\* C20: removal is permanent in gravsim-simulation.  From the moment a star's
\* position is the sentinel, no step of any later update changes the star
\* (its velocity is kept and its position is still the sentinel when the
\* update returns), the build inserts no point at the sentinel into the
\* tree, and the filter that guards the force query rejects the star.
C20_RemovalPermanent ==
    [][\A i \in 1..Len(stars) :
           IsRemoved(i) =>
               /\ stars'[i] = stars[i]
               /\ \A k \in 1..Len(points') : points'[k].position # Removed
               /\ phase' = "force" => ~contains(tree'[Root], stars'[i].mass_point.position)
      ]_vars

\* a second update has returned: it built a tree and moved a star while a
\* star that the first update had removed kept its nonzero velocity
C20_Witness ==
    /\ variant = "lib" /\ Returned /\ steps = 2
    /\ points # <<>>
    /\ \E i, j \in 1..Len(stars) :
           /\ stars0[i].mass_point.position = Removed
           /\ stars[i] = stars0[i]
           /\ stars[i].vel # VZero /\ IsFinite(stars[i].vel[1])
           /\ stars[j].vel # stars0[j].vel
           /\ stars[j].mass_point.position # Removed

====
